---- MODULE Spec2Model ----
(***************************************************************************)
(* Floaty-Hash: a wrapper over an f32 whose equality is tolerance based    *)
(* and whose hash is derived from the IEEE-754 bit layout (src/main.rs).   *)
(*                                                                         *)
(* Representation.  TLC integers are 32-bit signed, so a u32 bit pattern   *)
(* is the pair <<hi, lo>> of its two 16-bit halves (w = hi * 2^16 + lo).   *)
(* An f32 is represented by its bit pattern; f32 arithmetic is IEEE-754    *)
(* binary32 with round-to-nearest-even, computed on the decoded fields     *)
(* with guard, round and sticky bits.  An f64 that is a power of two is    *)
(* represented by its exponent.                                            *)
(***************************************************************************)
EXTENDS Integers, Sequences, FiniteSets, TLC

\* ------------------------------------------------------------- constants
F32_BITS == 32
F32_EXPONENT_BITS == 8
F32_EXPONENT_BIAS == 127
F32_MANTISA_BITS == 23
\* f64::DIGITS: what the loop bound would be with the wrong float type
F64_DIGITS == 9 + 6
\* f32::DIGITS of the standard library, the loop bound of raw_exp
F32_DIGITS == 6
\* 0.00001 as the nearest f32: 0x3727C5AC
F32_ERROR_TOLERANCE == <<14119, 50604>>

\* --------------------------------------------------------- u32 operations
ZeroWord == <<0, 0>>

\* 1 << k on a u32
OneShl(k) == IF k >= 16 THEN <<2^(k - 16), 0>> ELSE <<0, 2^k>>

\* w >> 1 on a u32
Shr1(w) == <<w[1] \div 2, (w[1] % 2) * 2^15 + (w[2] \div 2)>>

RECURSIVE ShrN(_, _)
ShrN(w, n) == IF n = 0 THEN w ELSE ShrN(Shr1(w), n - 1)

RECURSIVE And16(_, _, _)
And16(a, b, n) ==
    IF n = 0 THEN 0
    ELSE (a % 2) * (b % 2) + 2 * And16(a \div 2, b \div 2, n - 1)

\* a & b on a u32
BitAnd(a, b) == <<And16(a[1], b[1], 16), And16(a[2], b[2], 16)>>

\* ------------------------------------------------------- f32 (IEEE-754)
SignOf(x) == x[1] \div 2^15
ExpOf(x) == (x[1] \div 2^7) % 2^8
ManOf(x) == (x[1] % 2^7) * 2^16 + x[2]
Pack(s, e, m) == <<s * 2^15 + e * 2^7 + (m \div 2^16), m % 2^16>>

IsNaN(x) == ExpOf(x) = 255 /\ ManOf(x) # 0
IsInf(x) == ExpOf(x) = 255 /\ ManOf(x) = 0
IsZero(x) == ExpOf(x) = 0 /\ ManOf(x) = 0
QuietNaN == Pack(0, 255, 2^22)

\* the significand with its hidden bit, and the exponent it is scaled by:
\* |x| = Sig(x) * 2^(Scale(x) - 150)
Sig(x) == IF ExpOf(x) = 0 THEN ManOf(x) ELSE 2^23 + ManOf(x)
Scale(x) == IF ExpOf(x) = 0 THEN 1 ELSE ExpOf(x)
\* the magnitude as an integer key, monotone in |x|
Mag(x) == ExpOf(x) * 2^23 + ManOf(x)

f32_neg(x) == Pack(1 - SignOf(x), ExpOf(x), ManOf(x))
f32_abs(x) == Pack(0, ExpOf(x), ManOf(x))

\* s >> d keeping a sticky bit for what is shifted out (s < 2^27)
ShrSticky(s, d) ==
    IF d = 0 THEN s
    ELSE IF d >= 28 THEN (IF s = 0 THEN 0 ELSE 1)
    ELSE LET q == s \div 2^d
             r == s % 2^d
         IN IF r = 0 THEN q ELSE (q - (q % 2)) + 1

\* shift left until bit 26 is set or the scale reaches 1 (a subnormal)
RECURSIVE Normalize(_, _)
Normalize(s, e) ==
    IF s >= 2^26 \/ e <= 1 THEN <<s, e>> ELSE Normalize(s * 2, e - 1)

\* round a 27-bit significand with guard/round/sticky bits to 24 bits,
\* nearest even, and encode it
RoundPack(sign, s, e) ==
    LET q == s \div 8
        r == s % 8
        up == r > 4 \/ (r = 4 /\ q % 2 = 1)
        q1 == IF up THEN q + 1 ELSE q
        q2 == IF q1 >= 2^24 THEN q1 \div 2 ELSE q1
        e2 == IF q1 >= 2^24 THEN e + 1 ELSE e
    IN IF q2 < 2^23 THEN Pack(sign, 0, q2)
       ELSE IF e2 >= 255 THEN Pack(sign, 255, 0)
       ELSE Pack(sign, e2, q2 - 2^23)

\* a + b on f32
f32_add(a, b) ==
    IF IsNaN(a) \/ IsNaN(b) THEN QuietNaN
    ELSE IF IsInf(a) /\ IsInf(b)
         THEN (IF SignOf(a) = SignOf(b) THEN a ELSE QuietNaN)
    ELSE IF IsInf(a) THEN a
    ELSE IF IsInf(b) THEN b
    ELSE IF IsZero(a) /\ IsZero(b)
         THEN Pack(IF SignOf(a) = 1 /\ SignOf(b) = 1 THEN 1 ELSE 0, 0, 0)
    ELSE LET big == IF Mag(a) >= Mag(b) THEN a ELSE b
             small == IF Mag(a) >= Mag(b) THEN b ELSE a
             e == Scale(big)
             A == Sig(big) * 8
             B == ShrSticky(Sig(small) * 8, e - Scale(small))
         IN IF SignOf(big) = SignOf(small)
            THEN LET s == A + B
                 IN IF s >= 2^27
                    THEN RoundPack(SignOf(big), ShrSticky(s, 1), e + 1)
                    ELSE RoundPack(SignOf(big), s, e)
            ELSE LET s == A - B
                 IN IF s = 0 THEN Pack(0, 0, 0)
                    ELSE LET n == Normalize(s, e)
                         IN RoundPack(SignOf(big), n[1], n[2])

\* a - b on f32
f32_sub(a, b) == f32_add(a, f32_neg(b))

\* a <= b on f32 (false when either is NaN)
f32_le(a, b) ==
    IF IsNaN(a) \/ IsNaN(b) THEN FALSE
    ELSE IF IsZero(a) /\ IsZero(b) THEN TRUE
    ELSE IF SignOf(a) # SignOf(b) THEN SignOf(a) = 1
    ELSE IF SignOf(a) = 0 THEN Mag(a) <= Mag(b)
    ELSE Mag(a) >= Mag(b)

\* a != b on f32 (true when either is NaN, false for +0 and -0)
f32_ne(a, b) ==
    IF IsNaN(a) \/ IsNaN(b) THEN TRUE
    ELSE IF IsZero(a) /\ IsZero(b) THEN FALSE
    ELSE a # b

\* --------------------------------------------------- f64 powers of two
\* 2.0f64.powi(exp) and its halvings are exact powers of two; such an f64
\* is represented by its exponent p.  Pow2Ge(p, x) is 2^p >= x (as f64)
\* for a positive finite f32 x; below 2^-1074 the f64 is 0.
Pow2Ge(p, x) ==
    LET k == p - (Scale(x) - 150)
    IN IF p < -1074 THEN FALSE
       ELSE IF k >= 24 THEN TRUE
       ELSE IF k < 0 THEN FALSE
       ELSE 2^k >= Sig(x)

\* ------------------------------------------------------------ F32Wrapper
new(val) == [inner |-> val]

to_bits(self) == self.inner

sign_bit(self) == BitAnd(to_bits(self), OneShl(F32_BITS - 1)) # ZeroWord

exponent_bits(self) ==
    LET bits == to_bits(self)
        bit_selector == OneShl(F32_BITS - 1 - 1)
    IN [i \in 0..(F32_EXPONENT_BITS - 1) |->
            BitAnd(bits, ShrN(bit_selector, i)) # ZeroWord]

\* mantissa_bits with its selector starting one bit too high
mantissa_bits_high(self) ==
    LET bits == to_bits(self)
        bit_selector == OneShl(F32_BITS - 1 - F32_EXPONENT_BITS)
    IN [i \in 0..(F32_MANTISA_BITS - 1) |->
            BitAnd(bits, ShrN(bit_selector, i)) # ZeroWord]

mantissa_bits(self) ==
    LET bits == to_bits(self)
        bit_selector == OneShl(F32_BITS - 1 - 1 - F32_EXPONENT_BITS)
    IN [i \in 0..(F32_MANTISA_BITS - 1) |->
            BitAnd(bits, ShrN(bit_selector, i)) # ZeroWord]

bit_to_char(bit) == IF bit THEN "1" ELSE "0"

\* a String is the sequence of its characters
to_bin_str(self) ==
    LET eb == exponent_bits(self)
        mb == mantissa_bits(self)
    IN <<"0", "b">>
       \o <<bit_to_char(sign_bit(self))>>
       \o [k \in 1..F32_EXPONENT_BITS |-> bit_to_char(eb[k - 1])]
       \o [k \in 1..F32_MANTISA_BITS |-> bit_to_char(mb[k - 1])]

\* eq with the difference compared without abs()
eq_no_abs(self, other) ==
    f32_le(f32_sub(self.inner, other.inner), F32_ERROR_TOLERANCE)

\* PartialEq::eq
eq(self, other) ==
    f32_le(f32_abs(f32_sub(self.inner, other.inner)), F32_ERROR_TOLERANCE)

\* ------------------------------------------------------------------ hash
I32_MAX == 2147483647

\* the raw_exp loop: an index outside the array or an i32 overflow panics
RECURSIVE raw_exp_loop(_, _, _)
raw_exp_loop(eb, i, acc) ==
    IF i >= F32_DIGITS THEN [ok |-> TRUE, raw_exp |-> acc]
    ELSE IF i \notin DOMAIN eb THEN [ok |-> FALSE, raw_exp |-> acc]
    ELSE IF ~eb[i] THEN raw_exp_loop(eb, i + 1, acc)
    ELSE IF i >= 31 THEN [ok |-> FALSE, raw_exp |-> acc]
    ELSE IF acc > I32_MAX - 2^i THEN [ok |-> FALSE, raw_exp |-> acc]
    ELSE raw_exp_loop(eb, i + 1, acc + 2^i)

\* the exponent of the f64 multiplicative_exponent before the mantissa loop
multiplicative_exponent(self) ==
    LET r == raw_exp_loop(exponent_bits(self), 0, 0)
    IN [ok |-> r.ok, raw_exp |-> r.raw_exp,
        exp |-> r.raw_exp - F32_EXPONENT_BIAS]

\* the mantissa loop: bit i is kept when it is set and the scale, halved i
\* times, is still at least the tolerance
\* final_mantissa with no bit cleared
final_mantissa_untruncated(self) == mantissa_bits(self)

final_mantissa(self) ==
    LET mb == mantissa_bits(self)
        e == multiplicative_exponent(self).exp
    IN [i \in 0..(F32_MANTISA_BITS - 1) |->
            mb[i] /\ Pow2Ge(e - i, F32_ERROR_TOLERANCE)]

BoolByte(b) == IF b THEN 1 ELSE 0

\* what hashing [bool; n] writes: an array is hashed as a slice, its length
\* first and then each element, a bool as one byte
slice_fed(a, n) == <<n>> \o [k \in 1..n |-> BoolByte(a[k - 1])]

\* the sign step writing the sign for every value, or for none
sign_fed_always(self) == <<BoolByte(sign_bit(self))>>
sign_fed_never(self) == <<>>

\* what the first step of hash() writes: the sign bit unless the value is
\* equal to 0.0
sign_fed(self) ==
    IF f32_ne(self.inner, ZeroWord)
    THEN <<BoolByte(sign_bit(self))>> ELSE <<>>

\* hash with the exponent bits not written
hash_without_exponent(self) ==
    [panicked |-> ~multiplicative_exponent(self).ok,
     fed |-> sign_fed(self)
             \o slice_fed(final_mantissa(self), F32_MANTISA_BITS)]

\* what hash() writes to the Hasher, in order, and whether it panicked
hash(self) ==
    LET written == sign_fed(self)
                   \o slice_fed(exponent_bits(self), F32_EXPONENT_BITS)
    IN IF ~multiplicative_exponent(self).ok
       THEN [panicked |-> TRUE, fed |-> written]
       ELSE [panicked |-> FALSE,
             fed |-> written
                     \o slice_fed(final_mantissa(self), F32_MANTISA_BITS)]

\* ---------------------------------------------------------------- inputs
PosZero == <<0, 0>>
NegZero == f32_neg(PosZero)
F42 == <<16936, 0>>
F2 == <<16384, 0>>
F512 == <<17408, 0>>
NaN == QuietNaN
PosInf == Pack(0, 255, 0)
MinSubnormal == Pack(0, 0, 1)
MaxFinite == Pack(0, 254, 2^23 - 1)

\* F32_ERROR_TOLERANCE * 2.0 and F32_ERROR_TOLERANCE / 2.0 (exact: the
\* tolerance is a normal number far from overflow and underflow)
TolTimesTwo ==
    Pack(0, ExpOf(F32_ERROR_TOLERANCE) + 1, ManOf(F32_ERROR_TOLERANCE))
TolHalf ==
    Pack(0, ExpOf(F32_ERROR_TOLERANCE) - 1, ManOf(F32_ERROR_TOLERANCE))

Bases == {PosZero, NegZero, F42, f32_neg(F42), F2, F512, NaN, PosInf}

\* the values the tests build from a base: v +/- t/2 and v +/- 2t
Near(v) == {f32_add(v, TolHalf), f32_sub(v, TolHalf)}
Far(v) == {f32_add(v, TolTimesTwo), f32_sub(v, TolTimesTwo)}

\* the f32 values inserted into the set
Values ==
    Bases
    \cup UNION {Near(v) : v \in Bases}
    \cup UNION {Far(v) : v \in Bases}
    \cup {f32_add(F42, F32_ERROR_TOLERANCE), MinSubnormal, MaxFinite}

\* a chain around 42.0 (each within tolerance of the next, the ends not),
\* both zeros, and a value that is not equal to itself
OrderValues ==
    {F42, f32_add(F42, F32_ERROR_TOLERANCE), PosZero, NegZero, NaN}
    \cup Near(F42) \cup Far(F42)

\* the bit patterns whose decomposition and hash are inspected: every
\* single bit, every single cleared bit, every exponent, and Values
BitPatterns ==
    {OneShl(k) : k \in 0..(F32_BITS - 1)}
    \cup {<<2^16 - 1 - OneShl(k)[1], 2^16 - 1 - OneShl(k)[2]>> :
              k \in 0..(F32_BITS - 1)}
    \cup {Pack(sg, e, m) : sg \in 0..1, e \in 0..255,
                            m \in {0, 2^22 + 1, 2^23 - 1}}
    \cup Values

\* hash and eq of the inserted values, evaluated once
hash_of == [x \in Values |-> hash(new(x))]
eq_of == [x \in Values, y \in Values |-> eq(new(x), new(y))]

\* ----------------------------------------------------------------- state
MaxInserts == 3
MaxOrderInserts == 3

VARIABLES
    floats,     \* the HashSet, as the sequence of its members
    log,        \* the values passed to insert since the set was last empty
    state,      \* the data the last hash() call fed to its Hasher
    cleared,    \* whether clear() has been called
    panicked,   \* whether an operation has panicked
    wrapper,    \* the F32Wrapper whose methods are called (self)
    bin_str     \* the String to_bin_str() returned, <<>> before the call

vars == <<floats, log, state, cleared, panicked, wrapper, bin_str>>

Init ==
    /\ floats = <<>>
    /\ log = <<>>
    /\ state = <<>>
    /\ cleared = FALSE
    /\ panicked = FALSE
    /\ wrapper = new(PosZero)
    /\ bin_str = <<>>

\* whether the set holds a member the container takes for v: equals is
\* called only on members with equal hash
Contains(set, v) ==
    \E i \in 1..Len(set) :
        /\ hash_of[set[i].inner].fed = hash_of[v.inner].fed
        /\ eq_of[v.inner, set[i].inner]

\* the set after insert(v)
InsertInto(set, v) == IF Contains(set, v) THEN set ELSE Append(set, v)

\* floats.insert(F32Wrapper::new(val))
Insert(val) ==
    LET v == new(val)
        h == hash_of[val]
    IN /\ ~panicked
       /\ state' = h.fed
       /\ panicked' = h.panicked
       /\ floats' = IF h.panicked THEN floats ELSE InsertInto(floats, v)
       /\ log' = Append(log, v)
       /\ UNCHANGED <<cleared, wrapper, bin_str>>

\* floats.clear()
Clear ==
    /\ ~panicked
    /\ floats' = <<>>
    /\ log' = <<>>
    /\ cleared' = TRUE
    /\ UNCHANGED <<state, panicked, wrapper, bin_str>>

Next ==
    \/ \E val \in Values : Len(log) < MaxInserts /\ Insert(val)
    \/ Clear

Spec == Init /\ [][Next]_vars

\* the same program inserting the values of OrderValues
NextOrder ==
    \/ \E val \in OrderValues : Len(log) < MaxOrderInserts /\ Insert(val)
    \/ Clear

SpecOrder == Init /\ [][NextOrder]_vars

\* ------------------------------------------- the accessors on one wrapper
InitBits ==
    /\ floats = <<>>
    /\ log = <<>>
    /\ state = <<>>
    /\ cleared = FALSE
    /\ panicked = FALSE
    /\ wrapper \in {new(w) : w \in BitPatterns}
    /\ bin_str = <<>>

\* let bin_str = wrapper.to_bin_str()
ToBinStr ==
    /\ ~panicked
    /\ bin_str' = to_bin_str(wrapper)
    /\ UNCHANGED <<floats, log, state, cleared, panicked, wrapper>>

\* wrapper.hash(&mut state)
Hash ==
    /\ ~panicked
    /\ LET h == hash(wrapper)
       IN state' = h.fed /\ panicked' = h.panicked
    /\ UNCHANGED <<floats, log, cleared, wrapper, bin_str>>

NextBits == ToBinStr \/ Hash

SpecBits == InitBits /\ [][NextBits]_vars

\* ===================================================================
\* Properties
\* ===================================================================

\* bit k (0 = least significant) of the u32 w, by division
BitOf(w, k) == (IF k >= 16 THEN w[1] \div 2^(k - 16) ELSE w[2] \div 2^k) % 2

\* an array indexed from 0 as the sequence of its n elements in order
ArrSeq(a, n) == [k \in 1..n |-> a[k - 1]]

Last(q) == q[Len(q)]

\* the set built by inserting the elements of q, in order, into an empty set
RECURSIVE Replay(_)
Replay(q) ==
    IF q = <<>> THEN <<>>
    ELSE InsertInto(Replay(SubSeq(q, 1, Len(q) - 1)), Last(q))

\* the data hash() feeds for a and for b, and whether they are the same
SameFed(a, b) == hash_of[a.inner].fed = hash_of[b.inner].fed

Finite(x) == ExpOf(x) # 255

\* ------------------------------------------------------------------ C1
\* C1: for every 32-bit pattern w, sign_bit(), exponent_bits() and
\* mantissa_bits() concatenated in that order are the 32 bits of w, output
\* position k being bit 31-k of w, and to_bin_str() is "0b" followed by
\* those 32 bits as '0'/'1' characters.
C1_BitsReproduced ==
    LET w == wrapper.inner
        out == <<sign_bit(wrapper)>>
               \o ArrSeq(exponent_bits(wrapper), F32_EXPONENT_BITS)
               \o ArrSeq(mantissa_bits(wrapper), F32_MANTISA_BITS)
    IN /\ DOMAIN exponent_bits(wrapper) = 0..7
       /\ DOMAIN mantissa_bits(wrapper) = 0..22
       /\ Len(out) = 32
       /\ \A k \in 0..31 : out[k + 1] = (BitOf(w, 31 - k) = 1)
       /\ bin_str # <<>> =>
            /\ Len(bin_str) = 34
            /\ bin_str[1] = "0" /\ bin_str[2] = "b"
            /\ \A k \in 0..31 :
                 bin_str[k + 3] = IF BitOf(w, 31 - k) = 1 THEN "1" ELSE "0"

\* to_bin_str() has rendered -42.0 (0xC2280000)
C1_Witness ==
    /\ wrapper = new(f32_neg(F42))
    /\ bin_str = <<"0", "b", "1">>
                 \o <<"1", "0", "0", "0", "0", "1", "0", "0">>
                 \o <<"0", "1", "0", "1", "0", "0", "0", "0">>
                 \o [k \in 1..15 |-> "0"]

\* ------------------------------------------------------------------ C2
\* C2: +0.0 and -0.0 are the same key: equals is true of them, hash feeds
\* the same data for both and the sign bit for neither, and inserting one
\* and then the other, in either order, leaves the set with size 1.
C2_ZeroIdentity ==
    /\ \A i, j \in 1..Len(log) :
         IsZero(log[i].inner) /\ IsZero(log[j].inner) =>
            eq_of[log[i].inner, log[j].inner] /\ SameFed(log[i], log[j])
    /\ (log # <<>> /\ IsZero(Last(log).inner)) =>
            state = <<8>> \o [k \in 1..8 |-> 0] \o <<23>> \o [k \in 1..23 |-> 0]
    /\ (Len(log) = 2 /\ IsZero(log[1].inner) /\ IsZero(log[2].inner)) =>
            Len(floats) = 1

C2_Witness ==
    /\ log = <<new(PosZero), new(NegZero)>>
    /\ Len(floats) = 1

\* ------------------------------------------------------------------ C3
\* |a - b| <= tolerance, exactly, for finite a and b with the same sign and
\* exponent bits
ExactDiffLeTol(a, b) ==
    LET d == IF Sig(a) >= Sig(b) THEN Sig(a) - Sig(b) ELSE Sig(b) - Sig(a)
        k == Scale(a) - Scale(F32_ERROR_TOLERANCE)
    IN IF d = 0 \/ k < 0 THEN TRUE
       ELSE IF k >= 24 THEN FALSE
       ELSE d <= Sig(F32_ERROR_TOLERANCE) \div 2^k

\* a and b have the same sign bit and the same exponent bits and differ by
\* at most the tolerance
CloseInBinade(a, b) ==
    /\ Finite(a) /\ Finite(b)
    /\ SignOf(a) = SignOf(b)
    /\ ExpOf(a) = ExpOf(b)
    /\ ExactDiffLeTol(a, b)

\* equals(a, b), the same data fed, and a then b inserted giving size 1
OneKey == eq_of[log[1].inner, log[2].inner]
          /\ SameFed(log[1], log[2])
          /\ Len(floats) = 1

\* C3 as stated: for any a and b with the same sign bit and exponent bits
\* whose absolute difference is at most the tolerance, equals(a, b) is
\* true, hash feeds the same data, and inserting a then b gives size 1.
C3_CloseSameKey ==
    (Len(log) = 2 /\ CloseInBinade(log[1].inner, log[2].inner)) => OneKey

\* C3 amended: the same, for a and b that are both zero or both non-zero.
C3_CloseSameKeyNonZero ==
    (/\ Len(log) = 2
     /\ CloseInBinade(log[1].inner, log[2].inner)
     /\ IsZero(log[1].inner) = IsZero(log[2].inner)) => OneKey

C3_Witness ==
    /\ log = <<new(F42), new(f32_sub(F42, TolHalf))>>
    /\ log[1] # log[2]
    /\ Len(floats) = 1

\* ------------------------------------------------------------------ C4
far_of == [x \in Values |-> Far(x)]

\* v and then v + 2t or v - 2t were inserted into an empty set
FarPair == Len(log) = 2 /\ log[2].inner \in far_of[log[1].inner]

\* the set is what inserting the logged values into a fresh set gives, and
\* is empty when nothing was inserted since construction or clear()
AsFresh == floats = Replay(log) /\ (log = <<>> => Len(floats) = 0)

\* C4 as stated: for any base value v, equals(v, v +/- 2t) is false and
\* inserting v and then v +/- 2t gives size 2; after clear() the set has
\* size 0 and later inserts behave as on a fresh set.
C4_FarDistinct ==
    /\ FarPair => (~eq_of[log[1].inner, log[2].inner] /\ Len(floats) = 2)
    /\ AsFresh

\* C4 amended: the same, for any finite base value v with |v| < 512.
C4_FarDistinctBelow512 ==
    /\ (FarPair /\ Finite(log[1].inner) /\ Mag(log[1].inner) < Mag(F512)) =>
            (~eq_of[log[1].inner, log[2].inner] /\ Len(floats) = 2)
    /\ AsFresh

C4_Witness ==
    /\ cleared
    /\ log = <<new(F42), new(f32_add(F42, TolTimesTwo))>>
    /\ Len(floats) = 2

\* ------------------------------------------------------------------ C5
\* C5: equality is reflexive: equals(a, a) is true for every value a that
\* new() can wrap.
C5_Reflexive ==
    \A i \in 1..Len(log) : eq_of[log[i].inner, log[i].inner]

\* ------------------------------------------------------------------ C6
\* C6: the hash-contract violation is present: finite a and b with
\* different exponent bits and equals(a, b) true are fed differently by
\* hash, so inserting a and then b into an empty set yields size 2 (and
\* such a pair exists: C6_Witness).
C6_StraddlingPairSplits ==
    (/\ Len(log) = 2
     /\ Finite(log[1].inner) /\ Finite(log[2].inner)
     /\ ExpOf(log[1].inner) # ExpOf(log[2].inner)
     /\ eq_of[log[1].inner, log[2].inner]) =>
        (~SameFed(log[1], log[2]) /\ Len(floats) = 2)

\* 2.0 - t/2 (just below the power of two) and then 2.0
C6_Witness ==
    /\ log = <<new(f32_sub(F2, TolHalf)), new(F2)>>
    /\ SignOf(log[1].inner) = SignOf(log[2].inner)
    /\ ExpOf(log[1].inner) + 1 = ExpOf(log[2].inner)
    /\ eq_of[log[1].inner, log[2].inner]
    /\ Len(floats) = 2

\* ------------------------------------------------------------------ C7
\* C7: every operation is total: for every bit pattern, NaN, infinities,
\* subnormals and zeros included, the accessors, equals and hash complete;
\* every index used stays inside its 8- or 23-element array, and raw_exp
\* and raw_exp - 127 stay inside a signed 32-bit integer.
C7_Total ==
    LET m == multiplicative_exponent(wrapper)
    IN /\ ~panicked
       /\ m.ok
       /\ \A i \in 0..(F32_DIGITS - 1) : i \in DOMAIN exponent_bits(wrapper)
       /\ DOMAIN final_mantissa(wrapper) = DOMAIN mantissa_bits(wrapper)
       /\ m.raw_exp >= 0 /\ m.raw_exp <= I32_MAX
       /\ m.exp >= -I32_MAX - 1 /\ m.exp <= I32_MAX
       /\ eq(wrapper, wrapper) \in BOOLEAN
       /\ state # <<>> => Len(state) \in {33, 34}

\* hash() has completed on a NaN
C7_Witness ==
    /\ IsNaN(wrapper.inner)
    /\ Len(state) = 34
    /\ ~panicked

\* ------------------------------------------------------------------ C8
\* C8: with E the unsigned integer encoded by the 8 exponent bits, the
\* starting scale is 2^(E-127), and bit i of the mantissa sequence fed to
\* the hasher is set exactly when mantissa bit i of the value is set and
\* 2^(E-127) / 2^i >= 0.00001.
C8_SignificantMantissa ==
    LET w == wrapper.inner
        E == ExpOf(w)
    IN state # <<>> =>
          /\ multiplicative_exponent(wrapper).exp = E - F32_EXPONENT_BIAS
          /\ \A i \in 0..22 :
                state[Len(state) - 22 + i] =
                    BoolByte(/\ BitOf(w, 22 - i) = 1
                             /\ Pow2Ge(E - F32_EXPONENT_BIAS - i,
                                       F32_ERROR_TOLERANCE))

\* ------------------------------------------------------------------ C9
\* C9: the sign bit is fed exactly when the value is not equal to 0.0 (fed
\* for NaN, not for +0.0 or -0.0) and before the exponent bits; so two
\* non-zero values whose sign bits differ are fed differently, also when
\* equals is true of them, and inserting one then the other gives size 2.
C9_SignFed ==
    /\ log # <<>> =>
         LET w == Last(log).inner
         IN IF IsZero(w)
            THEN /\ Len(state) = 33
                 /\ state[1] = F32_EXPONENT_BITS
                 /\ \A k \in 0..7 : state[2 + k] = BitOf(w, 30 - k)
            ELSE /\ Len(state) = 34
                 /\ state[1] = BitOf(w, 31)
                 /\ state[2] = F32_EXPONENT_BITS
                 /\ \A k \in 0..7 : state[3 + k] = BitOf(w, 30 - k)
    /\ \A i, j \in 1..Len(log) :
         (/\ ~IsZero(log[i].inner) /\ ~IsZero(log[j].inner)
          /\ SignOf(log[i].inner) # SignOf(log[j].inner)) =>
            ~SameFed(log[i], log[j])
    /\ (/\ Len(log) = 2
        /\ ~IsZero(log[1].inner) /\ ~IsZero(log[2].inner)
        /\ SignOf(log[1].inner) # SignOf(log[2].inner)) => Len(floats) = 2

\* x = t/2 and then -x: equals is true of them (2x <= tolerance)
C9_Witness ==
    /\ log = <<new(TolHalf), new(f32_neg(TolHalf))>>
    /\ eq_of[log[1].inner, log[2].inner]
    /\ Len(floats) = 2

\* ----------------------------------------------------------------- C10
\* the permutations of 1..n
perms_of ==
    [n \in 0..(MaxOrderInserts + 1) |->
        {p \in [1..n -> 1..n] : \A i, j \in 1..n : p[i] = p[j] => i = j}]

\* the size of the set after the logged values are inserted in order p
SizeInOrder(p) == Len(Replay([k \in 1..Len(log) |-> log[p[k]]]))

\* equals on members with equal hash, as the container sees it
Same(a, b) == SameFed(a, b) /\ eq_of[a.inner, b.inner]

Chain ==
    /\ Len(log) = 3
    /\ Same(log[1], log[2]) /\ Same(log[2], log[3])
    /\ SameFed(log[1], log[3]) /\ ~eq_of[log[1].inner, log[3].inner]

====
